---- MODULE Spec2Model ----
(***************************************************************************)
(* Model of the NN Insurance MCP server (src/src/index.ts): the rule-based *)
(* recommendation engine (recommendPolicy, calculateEstimatedPremium), the *)
(* four extraction functions and the handlers that invoke the six tools.   *)
(* Spec is the server, SpecCounted its two dispatchers with the fetches    *)
(* counted, SpecExtract the extraction alone, SpecRecommend the engine.    *)
(*                                                                         *)
(* Optional values (a field that may be undefined in JavaScript) are       *)
(* sequences of length at most one: << >> is undefined, <<v>> is v.        *)
(* Strings that the code builds by concatenation or templates are          *)
(* sequences of string pieces.  Non-integer numbers only arise from        *)
(* vehicleValue / 1000, so prices are kept exactly, in thousandths.        *)
(***************************************************************************)
EXTENDS Integers, Sequences, FiniteSets, TLC

VARIABLES pending, last, fetches, started, serving

vars == <<pending, last, fetches, started, serving>>

\* ------------------------------------------------------------------------
\* JavaScript values
\* ------------------------------------------------------------------------
undefined == << >>

Some(v) == <<v>>

\* truthiness of an optional number: undefined and 0 are falsy
TruthyNum(x) == x # undefined /\ x[1] # 0

\* truthiness of an optional boolean
TruthyBool(x) == x # undefined /\ x[1]

\* truthiness of an optional string: undefined and "" are falsy
TruthyStr(x) == x # undefined /\ x[1] # ""

\* Math.round on a value given in thousandths: floor(x + 0.5)
MathRound(milli) == (milli + 500) \div 1000

MathMin(a, b) == IF a < b THEN a ELSE b

\* ------------------------------------------------------------------------
\* Recommendation engine
\* ------------------------------------------------------------------------
\* "Age scoring" block of recommendPolicy
ageScore(profile) ==
    IF TruthyNum(profile.age)
    THEN IF profile.age[1] < 25 THEN 3
         ELSE IF profile.age[1] < 35 THEN 1
         ELSE IF profile.age[1] > 70 THEN 2
         ELSE 0
    ELSE 0

\* "Driving experience scoring" block of recommendPolicy
experienceScore(profile) ==
    IF TruthyNum(profile.drivingExperience)
    THEN IF profile.drivingExperience[1] < 2 THEN 2
         ELSE IF profile.drivingExperience[1] < 5 THEN 1
         ELSE 0
    ELSE 0

\* variant: a supplied accidentCount of 0 counts as 0 accidents
accidentScore_zeroCounts(profile) ==
    IF TruthyBool(profile.hasAccidents)
    THEN (IF profile.accidentCount # undefined
          THEN profile.accidentCount[1] ELSE 1) * 2
    ELSE 0

\* "Accident history scoring" block: (profile.accidentCount || 1) * 2
accidentScore(profile) ==
    IF TruthyBool(profile.hasAccidents)
    THEN (IF TruthyNum(profile.accidentCount)
          THEN profile.accidentCount[1] ELSE 1) * 2
    ELSE 0

\* "Mileage scoring" block of recommendPolicy
mileageScore(profile) ==
    IF TruthyNum(profile.annualMileage)
    THEN IF profile.annualMileage[1] > 30000 THEN 1 ELSE 0
    ELSE 0

\* the local riskScore after the four scoring blocks
riskScore(profile) ==
    ageScore(profile) + experienceScore(profile)
        + accidentScore(profile) + mileageScore(profile)

riskCoverages(score) ==
    IF score >= 4
    THEN <<"Comprehensive Coverage", "Collision Protection">>
    ELSE << >>

valueCoverages(profile) ==
    IF TruthyNum(profile.vehicleValue) /\ profile.vehicleValue[1] > 20000
    THEN <<"Full Coverage Package", "Roadside Assistance">>
    ELSE << >>

\* variant: the risk threshold 30000 reused for Breakdown Assistance
mileageCoverages_riskThreshold(profile) ==
    IF TruthyNum(profile.annualMileage) /\ profile.annualMileage[1] > 30000
    THEN <<"Breakdown Assistance">>
    ELSE << >>

mileageCoverages(profile) ==
    IF TruthyNum(profile.annualMileage) /\ profile.annualMileage[1] > 20000
    THEN <<"Breakdown Assistance">>
    ELSE << >>

\* variant: the questionnaire's label and the capitalised word also match
habitsCoverages_looseMatch(profile) ==
    IF profile.drivingHabits \in {Some("highway"), Some("Highway"),
                                  Some("Highway (long distances)")}
    THEN <<"Extended Coverage", "Legal Assistance">>
    ELSE << >>

habitsCoverages(profile) ==
    IF profile.drivingHabits = Some("highway")
    THEN <<"Extended Coverage", "Legal Assistance">>
    ELSE << >>

\* the list recommendedCoverages built by the pushes of recommendPolicy
recommendedCoverages(profile, score) ==
    <<"Third-Party Liability (Mandatory)">>
        \o riskCoverages(score)
        \o valueCoverages(profile)
        \o mileageCoverages(profile)
        \o habitsCoverages(profile)

\* variant: the boundaries 2 and 4 excluded
riskLevel_strict(score) ==
    IF score < 2 THEN "Low"
    ELSE IF score < 4 THEN "Medium"
    ELSE "High"

riskLevel(score) ==
    IF score <= 2 THEN "Low"
    ELSE IF score <= 4 THEN "Medium"
    ELSE "High"

\* basePrice (in thousandths) before the budget cap
basePriceMilli(profile, score) ==
    80000 + score * 15000
        + (IF TruthyNum(profile.vehicleValue)
           THEN profile.vehicleValue[1] ELSE 0)
        + (IF TruthyNum(profile.annualMileage)
              /\ profile.annualMileage[1] > 30000
           THEN 20000 ELSE 0)

\* basePrice (in thousandths) after the budget cap
cappedPriceMilli(profile, base) ==
    IF profile.budgetRange = Some("€50-100") THEN MathMin(base, 100000)
    ELSE IF profile.budgetRange = Some("€100-150") THEN MathMin(base, 150000)
    ELSE base

\* variant: the annual figure taken as twelve times the rounded monthly one
calculateEstimatedPremium_annualFromMonthly(profile, score) ==
    LET basePrice == cappedPriceMilli(profile, basePriceMilli(profile, score))
        estimatedMonthly == MathRound(basePrice)
    IN  <<"€", estimatedMonthly, "/month (approximately €",
          estimatedMonthly * 12, "/year)">>

\* the template string is kept as its pieces, the two numbers unformatted
calculateEstimatedPremium(profile, score) ==
    LET basePrice == cappedPriceMilli(profile, basePriceMilli(profile, score))
        estimatedMonthly == MathRound(basePrice)
        estimatedAnnual == MathRound(basePrice * 12)
    IN  <<"€", estimatedMonthly, "/month (approximately €",
          estimatedAnnual, "/year)">>

\* `${x || fallback}` for an optional string
OrElse(x, fallback) == IF TruthyStr(x) THEN x[1] ELSE fallback

\* The object that recommendPolicy serialises.  JSON.stringify drops a key
\* whose value is undefined: such a key is kept here with the value << >>.
recommendPolicy(profile) ==
    LET score == riskScore(profile)
    IN  [profileSummary |->
            [age |-> profile.age,
             experience |-> profile.drivingExperience,
             vehicleType |-> profile.vehicleType,
             riskLevel |-> riskLevel(score),
             riskScore |-> score],
         recommendation |->
            [policyName |-> "RGF Car Insurance - Personalized",
             recommendedCoverages |-> recommendedCoverages(profile, score),
             estimatedPremium |-> calculateEstimatedPremium(profile, score),
             highlights |->
                <<<<"Tailored for ",
                    OrElse(profile.vehicleType, "your vehicle"), " owners">>,
                  <<"Suitable for ",
                    OrElse(profile.drivingHabits, "your"), " driving habits">>,
                  <<"Comprehensive protection for your needs">>,
                  <<"24/7 customer support and assistance">>>>],
         nextSteps |->
            <<"Review the recommended coverages above",
              "Contact our team for a detailed quote",
              "Compare with other options if desired",
              "Complete your online application">>]

\* ------------------------------------------------------------------------
\* Strings of a fetched page
\* ------------------------------------------------------------------------
\* A page string is a sequence of runs [c |-> character, n |-> count], with
\* no two adjacent runs of the same character; "" is << >>.  A literal of
\* the code is one run holding the literal and its length.
Run(c, n) == <<[c |-> c, n |-> n]>>

IsSpace(c) == c \in {" ", "\n"}

RECURSIVE StrLen(_)
StrLen(str) == IF str = << >> THEN 0 ELSE str[1].n + StrLen(Tail(str))

\* a + b
StrCat(a, b) ==
    IF a = << >> THEN b
    ELSE IF b = << >> THEN a
    ELSE IF a[Len(a)].c = b[1].c
         THEN SubSeq(a, 1, Len(a) - 1)
                 \o Run(b[1].c, a[Len(a)].n + b[1].n) \o Tail(b)
         ELSE a \o b

\* str.substring(0, n)
RECURSIVE Substring(_, _)
Substring(str, n) ==
    IF n <= 0 \/ str = << >> THEN << >>
    ELSE IF str[1].n <= n
         THEN <<str[1]>> \o Substring(Tail(str), n - str[1].n)
         ELSE Run(str[1].c, n)

RECURSIVE TrimStart(_)
TrimStart(str) ==
    IF str # << >> /\ IsSpace(str[1].c) THEN TrimStart(Tail(str)) ELSE str

RECURSIVE TrimEnd(_)
TrimEnd(str) ==
    IF str # << >> /\ IsSpace(str[Len(str)].c)
    THEN TrimEnd(SubSeq(str, 1, Len(str) - 1))
    ELSE str

\* str.trim()
Trim(str) == TrimEnd(TrimStart(str))

\* strs.join("\n\n")
RECURSIVE Join(_)
Join(strs) ==
    IF strs = << >> THEN << >>
    ELSE IF Len(strs) = 1 THEN strs[1]
    ELSE StrCat(strs[1], StrCat(Run("\n", 2), Join(Tail(strs))))

\* ------------------------------------------------------------------------
\* The parsed page: what cheerio.load(response.data) gives
\* ------------------------------------------------------------------------
\* A document is its nodes in document order; a node names its parent (0 at
\* the top), an element has a tag, classes and attributes, a text node has
\* the tag "#text" and its text.
Node(tag, parent) ==
    [tag |-> tag, parent |-> parent, text |-> << >>, class |-> {},
     href |-> undefined, name |-> undefined, property |-> undefined,
     content |-> undefined]

TextNode(parent, text) == [Node("#text", parent) EXCEPT !.text = text]

RECURSIVE InSubtree(_, _, _)
InSubtree(nodes, root, k) ==
    IF k = root THEN TRUE
    ELSE IF k = 0 THEN FALSE
    ELSE InSubtree(nodes, root, nodes[k].parent)

Indices(nodes) == [k \in 1..Len(nodes) |-> k]

\* $("tag, tag, ..."): the elements with one of the tags, in document order
SelectTags(nodes, tags) ==
    LET Match(k) == nodes[k].tag \in tags
    IN  SelectSeq(Indices(nodes), Match)

RECURSIVE TextFrom(_, _, _)
TextFrom(nodes, root, k) ==
    IF k > Len(nodes) THEN << >>
    ELSE StrCat(IF nodes[k].tag = "#text" /\ InSubtree(nodes, root, k)
                THEN nodes[k].text ELSE << >>,
                TextFrom(nodes, root, k + 1))

\* $(element).text(): the text nodes below the element, concatenated
ElementText(nodes, root) == TextFrom(nodes, root, 1)

\* $(selection).text(): the texts of the selected elements, concatenated
RECURSIVE SelectionText(_, _)
SelectionText(nodes, selection) ==
    IF selection = << >> THEN << >>
    ELSE StrCat(ElementText(nodes, selection[1]),
                SelectionText(nodes, Tail(selection)))

\* $(selection).attr("content"): of the first selected element
FirstContent(nodes, selection) ==
    IF selection = << >> THEN undefined ELSE nodes[selection[1]].content

\* x || fallback, for an optional page string
StrOrElse(x, fallback) ==
    IF x # undefined /\ x[1] # << >> THEN x[1] ELSE fallback

RECURSIVE MapTrimmedText(_, _)
MapTrimmedText(nodes, selection) ==
    IF selection = << >> THEN << >>
    ELSE <<Trim(ElementText(nodes, selection[1]))>>
            \o MapTrimmedText(nodes, Tail(selection))

NonEmpty(str) == str # << >>

\* ------------------------------------------------------------------------
\* Extraction tools, applied to the response of the fetch
\* ------------------------------------------------------------------------
\* variant: the text of the body is returned whole
browsePage_uncut(page, includeHtml) ==
    LET mainContent ==
            Trim(SelectionText(page.nodes, SelectTags(page.nodes, {"body"})))
    IN  IF includeHtml
        THEN [text_content |-> Substring(mainContent, 5000),
              html_preview |-> Substring(page.raw, 3000)]
        ELSE mainContent

browsePage(page, includeHtml) ==
    LET mainContent ==
            Trim(SelectionText(page.nodes, SelectTags(page.nodes, {"body"})))
    IN  IF includeHtml
        THEN [text_content |-> Substring(mainContent, 5000),
              html_preview |-> Substring(page.raw, 3000)]
        ELSE Substring(mainContent, 10000)

\* variant: a text that was already taken is not taken again
RECURSIVE Distinct(_)
Distinct(strs) ==
    IF strs = << >> THEN << >>
    ELSE LET Other(str) == str # strs[1]
         IN  <<strs[1]>> \o Distinct(SelectSeq(Tail(strs), Other))

extractText_deduplicated(page) ==
    LET selection ==
            SelectTags(page.nodes,
                {"p", "h1", "h2", "h3", "h4", "h5", "h6", "li", "span", "div"})
        paragraphs == SelectSeq(MapTrimmedText(page.nodes, selection), NonEmpty)
    IN  Join(Distinct(paragraphs))

extractText(page) ==
    LET selection ==
            SelectTags(page.nodes,
                {"p", "h1", "h2", "h3", "h4", "h5", "h6", "li", "span", "div"})
        paragraphs == SelectSeq(MapTrimmedText(page.nodes, selection), NonEmpty)
    IN  Join(paragraphs)

getPageMetadata(page) ==
    LET nodes == page.nodes
        Described(k) == nodes[k].tag = "meta"
                            /\ nodes[k].name = Some(Run("description", 11))
        OgTitle(k) == nodes[k].tag = "meta"
                            /\ nodes[k].property = Some(Run("og:title", 8))
        OgDescription(k) == nodes[k].tag = "meta"
                            /\ nodes[k].property = Some(Run("og:description", 14))
        Anchor(k) == nodes[k].tag = "a" /\ nodes[k].href # undefined
        Truthy(k) == nodes[k].href[1] # << >>
        Href(k) == nodes[k].href[1]
        anchors == SelectSeq(SelectSeq(Indices(nodes), Anchor), Truthy)
        title == SelectionText(nodes, SelectTags(nodes, {"title"}))
    IN  [url |-> "https://myinsurancepolicy.be/rgf/car/fr",
         title |-> IF title # << >> THEN title ELSE Run("No title found", 14),
         description |->
            StrOrElse(FirstContent(nodes, SelectSeq(Indices(nodes), Described)),
                      Run("No description", 14)),
         og_title |-> FirstContent(nodes, SelectSeq(Indices(nodes), OgTitle)),
         og_description |->
            FirstContent(nodes, SelectSeq(Indices(nodes), OgDescription)),
         links |-> [i \in 1..Len(anchors) |-> Href(anchors[i])],
         headings |->
            SelectSeq(MapTrimmedText(nodes,
                          SelectTags(nodes, {"h1", "h2", "h3", "h4", "h5", "h6"})),
                      NonEmpty)]

\* variant: a text of exactly 20 characters is kept
getRGFPolicyInfo_keepsTwenty(page) ==
    LET nodes == page.nodes
        Container(k) ==
            \/ nodes[k].tag \in {"section", "article"}
            \/ nodes[k].class \cap {"content", "policy-details"} # {}
        Found(k) ==
            /\ nodes[k].tag \in {"h2", "h3", "li", "p"}
            /\ \E c \in 1..Len(nodes) :
                  Container(c) /\ c # k /\ InSubtree(nodes, c, k)
        Kept(k) == StrLen(Trim(ElementText(nodes, k))) >= 20
        kept == SelectSeq(SelectSeq(Indices(nodes), Found), Kept)
        Heading(k) == nodes[k].tag \in {"h2", "h3"}
        Item(k) == nodes[k].tag = "li"
    IN  [policyName |-> "RGF Car Insurance",
         url |-> "https://myinsurancepolicy.be/rgf/car/fr",
         coverageTypes |-> MapTrimmedText(nodes, SelectSeq(kept, Heading)),
         features |-> MapTrimmedText(nodes, SelectSeq(kept, Item)),
         benefits |-> << >>,
         fullDetails |->
            Substring(Trim(SelectionText(nodes, SelectTags(nodes, {"body"}))),
                      8000)]

getRGFPolicyInfo(page) ==
    LET nodes == page.nodes
        Container(k) ==
            \/ nodes[k].tag \in {"section", "article"}
            \/ nodes[k].class \cap {"content", "policy-details"} # {}
        \* .find("h2, h3, li, p"): proper descendants of a container
        Found(k) ==
            /\ nodes[k].tag \in {"h2", "h3", "li", "p"}
            /\ \E c \in 1..Len(nodes) :
                  Container(c) /\ c # k /\ InSubtree(nodes, c, k)
        Kept(k) == StrLen(Trim(ElementText(nodes, k))) > 20
        kept == SelectSeq(SelectSeq(Indices(nodes), Found), Kept)
        Heading(k) == nodes[k].tag \in {"h2", "h3"}
        Item(k) == nodes[k].tag = "li"
    IN  [policyName |-> "RGF Car Insurance",
         url |-> "https://myinsurancepolicy.be/rgf/car/fr",
         coverageTypes |-> MapTrimmedText(nodes, SelectSeq(kept, Heading)),
         features |-> MapTrimmedText(nodes, SelectSeq(kept, Item)),
         benefits |-> << >>,
         fullDetails |->
            Substring(Trim(SelectionText(nodes, SelectTags(nodes, {"body"}))),
                      8000)]

\* the questions of getPolicyQuestionnaire (texts and hints left out)
getPolicyQuestionnaire ==
    [title |-> "RGF Car Insurance Policy Questionnaire",
     questions |->
        <<[id |-> "age", type |-> "number", required |-> TRUE],
          [id |-> "driving_experience", type |-> "number", required |-> TRUE],
          [id |-> "vehicle_type", type |-> "select", required |-> TRUE,
           options |-> <<"Sedan", "SUV", "Van", "Sports Car", "Other">>],
          [id |-> "annual_mileage", type |-> "number", required |-> TRUE],
          [id |-> "driving_habits", type |-> "select", required |-> TRUE,
           options |-> <<"Urban (city driving)", "Highway (long distances)",
                         "Mixed">>],
          [id |-> "has_accidents", type |-> "boolean", required |-> TRUE],
          [id |-> "accident_count", type |-> "number", required |-> FALSE],
          [id |-> "vehicle_value", type |-> "number", required |-> TRUE],
          [id |-> "budget_range", type |-> "select", required |-> TRUE,
           options |-> <<"€50-100", "€100-150", "€150-200", "€200+">>]>>]

OptionsOf(question) ==
    {getPolicyQuestionnaire.questions[question].options[i] :
        i \in 1..Len(getPolicyQuestionnaire.questions[question].options)}

\* ------------------------------------------------------------------------
\* Inputs of the recommendation engine
\* ------------------------------------------------------------------------
Opt(S) == {undefined} \cup {Some(v) : v \in S}

Ages == {-1, 0, 24, 25, 34, 35, 70, 71}

Experiences == {0, 1, 2, 4, 5}

AccidentCounts == {-1, 0, 2}

Mileages == {20000, 20001, 30000, 30001}

VehicleValues == {20000, 20125, 20500}

\* the option labels getPolicyQuestionnaire offers for driving_habits
DrivingHabitsOptions == OptionsOf(5)

DrivingHabits == {"highway", "Highway"} \cup DrivingHabitsOptions

\* the option labels getPolicyQuestionnaire offers for budget_range
BudgetRangeOptions == OptionsOf(9)

VehicleTypes == {"suv"}

UserProfiles ==
    [age : Opt(Ages),
     drivingExperience : Opt(Experiences),
     vehicleType : Opt(VehicleTypes),
     annualMileage : Opt(Mileages),
     drivingHabits : Opt(DrivingHabits),
     hasAccidents : Opt(BOOLEAN),
     accidentCount : Opt(AccidentCounts),
     vehicleValue : Opt(VehicleValues),
     budgetRange : Opt(BudgetRangeOptions)]

\* ------------------------------------------------------------------------
\* The server: invocations through the MCP handler and the HTTP endpoints
\* ------------------------------------------------------------------------
ExtractionTools ==
    {"browse_page", "extract_text", "get_page_metadata", "get_rgf_policy_info"}

ToolNames ==
    ExtractionTools \cup {"get_policy_questionnaire", "recommend_policy"}

\* names that are none of the six tools
UnknownNames == {"", "delete_policy", "Browse_Page"}

\* The argument map of a call.  A key that is not sent is undefined; a call
\* that sends no map at all reads every key as undefined as well
\* (arguments || {}, args?.key).
NoArgs ==
    [include_html |-> undefined, age |-> undefined,
     driving_experience |-> undefined, vehicle_type |-> undefined,
     annual_mileage |-> undefined, driving_habits |-> undefined,
     has_accidents |-> undefined, accident_count |-> undefined,
     vehicle_value |-> undefined, budget_range |-> undefined]

\* the include_html values sent to browse_page
IncludeHtmlArgs == {undefined, Some(TRUE)}

BrowseArgs == {[NoArgs EXCEPT !.include_html = v] : v \in IncludeHtmlArgs}

RecommendArgs ==
    {NoArgs,
     [NoArgs EXCEPT !.age = Some(24), !.driving_experience = Some(1),
                    !.vehicle_type = Some("suv"),
                    !.has_accidents = Some(TRUE), !.accident_count = Some(0),
                    !.budget_range = Some("€50-100")],
     [NoArgs EXCEPT !.age = Some(71), !.annual_mileage = Some(30001),
                    !.driving_habits = Some("highway"),
                    !.vehicle_value = Some(20500)],
     [NoArgs EXCEPT !.age = Some(0), !.driving_experience = Some(0),
                    !.driving_habits = Some("Highway (long distances)"),
                    !.has_accidents = Some(FALSE), !.accident_count = Some(2),
                    !.budget_range = Some("€200+")]}

ArgsFor(tool) ==
    IF tool = "browse_page" THEN BrowseArgs
    ELSE IF tool = "recommend_policy" THEN RecommendArgs
    ELSE {NoArgs}

\* const profile: UserProfile = {...} of the CallTool handler
mcpProfile(toolInput) ==
    [age |-> toolInput.age,
     drivingExperience |-> toolInput.driving_experience,
     vehicleType |-> toolInput.vehicle_type,
     annualMileage |-> toolInput.annual_mileage,
     drivingHabits |-> toolInput.driving_habits,
     hasAccidents |-> toolInput.has_accidents,
     accidentCount |-> toolInput.accident_count,
     vehicleValue |-> toolInput.vehicle_value,
     budgetRange |-> toolInput.budget_range]

\* const profile: UserProfile = {...} of POST /api/tools/recommend_policy
endpointProfile(body) ==
    [age |-> body.age,
     drivingExperience |-> body.driving_experience,
     vehicleType |-> body.vehicle_type,
     annualMileage |-> body.annual_mileage,
     drivingHabits |-> body.driving_habits,
     hasAccidents |-> body.has_accidents,
     accidentCount |-> body.accident_count,
     vehicleValue |-> body.vehicle_value,
     budgetRange |-> body.budget_range]

\* variant: POST /api/call reads the keys of more than one word in camelCase,
\* which the argument map does not hold
apiCallProfile_camelCaseKeys(args) ==
    [age |-> args.age,
     drivingExperience |-> undefined,
     vehicleType |-> undefined,
     annualMileage |-> undefined,
     drivingHabits |-> undefined,
     hasAccidents |-> undefined,
     accidentCount |-> undefined,
     vehicleValue |-> undefined,
     budgetRange |-> undefined]

\* const profile: UserProfile = {...} of POST /api/call
apiCallProfile(args) ==
    [age |-> args.age,
     drivingExperience |-> args.driving_experience,
     vehicleType |-> args.vehicle_type,
     annualMileage |-> args.annual_mileage,
     drivingHabits |-> args.driving_habits,
     hasAccidents |-> args.has_accidents,
     accidentCount |-> args.accident_count,
     vehicleValue |-> args.vehicle_value,
     budgetRange |-> args.budget_range]

\* (input.include_html as boolean) || false
includeHtmlOf(input) == TruthyBool(input.include_html)

\* Pages the target URL may answer with
PageFull ==
    [raw |-> Run("<", 4000),
     nodes |->
        <<Node("head", 0),
          Node("title", 1),
          TextNode(2, Run("t", 12)),
          [Node("meta", 1) EXCEPT !.name = Some(Run("description", 11)),
                                  !.content = Some(Run("d", 30))],
          Node("body", 0),
          Node("section", 5),
          Node("h2", 6),
          TextNode(7, Run("h", 21)),
          Node("li", 6),
          TextNode(9, Run("f", 20)),
          Node("p", 6),
          TextNode(11, Run("p", 30)),
          [Node("a", 5) EXCEPT !.href = Some(Run("/contact", 8))],
          TextNode(13, Run(" ", 1) \o Run("c", 7))>>]

PageLong ==
    [raw |-> Run("<", 20) \o Run("x", 12000) \o Run(">", 20),
     nodes |->
        <<Node("head", 0),
          Node("body", 0),
          Node("div", 2),
          Node("p", 3),
          TextNode(4, Run("x", 12000))>>]

Pages == {"full", "long"}

PageOf(id) == IF id = "full" THEN PageFull ELSE PageLong

Lit(str) == [lit |-> str]

\* error.message of the error axios.get rejects with
FetchErrors ==
    {<<Lit("timeout of 10000ms exceeded")>>,
     <<Lit("Request failed with status code 404")>>}

\* error.message of what browsePage throws on a body that is no string
CoreErrors ==
    {<<Lit("cheerio.load() expects a string")>>,
     <<Lit("response.data.substring is not a function")>>}

\* the core function an extraction tool names, applied to the fetched page
extraction(tool, includeHtml, page) ==
    CASE tool = "browse_page" -> browsePage(page, includeHtml)
      [] tool = "extract_text" -> extractText(page)
      [] tool = "get_page_metadata" -> getPageMetadata(page)
      [] tool = "get_rgf_policy_info" -> getRGFPolicyInfo(page)

\* A text is a sequence of pieces: a literal of the code, Lit(str), or a
\* value a template or a result puts there, [val |-> v].
\* return { content: [{ type: "text", text: result }] }
mcpResult(result) ==
    [content |-> <<[type |-> "text", text |-> <<[val |-> result]>>,
                    isError |-> undefined]>>]

\* catch of the CallTool handler: text: `Error: ${errorMessage}`
mcpCaught(errorMessage) ==
    [content |-> <<[type |-> "text", text |-> <<Lit("Error: ")>> \o errorMessage,
                    isError |-> Some(TRUE)]>>]

\* variant: the error does not say which tool was asked for
mcpUnknownTool_unnamed(toolName) ==
    <<Lit("MCP error "), Lit("-32601"), Lit(": "), Lit("Method not found")>>

\* message of new McpError(ErrorCode.MethodNotFound, `Unknown tool: ${name}`)
mcpUnknownTool(toolName) ==
    <<Lit("MCP error "), Lit("-32601"), Lit(": "),
      Lit("Unknown tool: "), [val |-> toolName]>>

\* res.json({ success: true, data: result })
httpResult(result) ==
    [status |-> 200, body |-> [success |-> TRUE, data |-> result]]

\* res.status(status).json({ success: false, error: message })
httpError(status, message) ==
    [status |-> status, body |-> [success |-> FALSE, error |-> message]]

\* an error that no catch of the handler took
Thrown(message) == [thrown |-> message]

\* the outcome of an invocation whose handler ran to its success return
succeeded(entry, result) ==
    IF entry = "mcp" THEN mcpResult(result) ELSE httpResult(result)

\* variant: the catch answers with an empty result instead of the error
caught_emptyResult(entry, message) == succeeded(entry, << >>)

\* variant: the catch throws the error on
caught_rethrown(entry, message) == Thrown(message)

\* the outcome of an invocation whose handler caught an error
caught(entry, message) ==
    IF entry = "mcp" THEN mcpCaught(message) ELSE httpError(500, message)

Entries == {"mcp", "api_call", "endpoint"}

\* The invocations that can await a fetch: the entry point, the tool and the
\* include_html argument, the one argument an extraction tool reads.
Kinds ==
    {<<entry, tool, undefined>> : entry \in Entries, tool \in ExtractionTools}
        \cup {<<entry, "browse_page", v>> :
                 entry \in Entries, v \in IncludeHtmlArgs}

ArgsOf(k) == [NoArgs EXCEPT !.include_html = k[3]]

MaxInFlight == 2

RECURSIVE Enumerate(_)
Enumerate(set) ==
    IF set = {} THEN << >>
    ELSE LET x == CHOOSE y \in set : TRUE
         IN  <<x>> \o Enumerate(set \ {x})

KindSeq == Enumerate(Kinds)

RECURSIVE Total(_, _)
Total(bag, i) ==
    IF i > Len(KindSeq) THEN 0 ELSE bag[KindSeq[i]] + Total(bag, i + 1)

\* how many invocations await their fetch
InFlight == Total(pending, 1)

\* pending: how many invocations of each kind await their fetch (concurrent
\* invocations share nothing, so they are told apart by what was asked);
\* last: the invocation that ended last, with what it was asked, what it did
\* and its outcome;
\* fetches: the calls of axios.get so far; started: the invocations of an
\* extraction tool so far (both counted up to the number a specification
\* observes);
\* serving: the process runs and its handlers are registered
Init ==
    /\ pending = [k \in Kinds |-> 0]
    /\ last = [entry |-> "none"]
    /\ fetches = 0
    /\ started = 0
    /\ serving = TRUE

\* what an invocation fetched: nothing, a page, or a failure
NoFetch == [issued |-> FALSE]

Fetched(page) == [issued |-> TRUE, ok |-> TRUE, page |-> page]

FetchFailure(message) == [issued |-> TRUE, ok |-> FALSE, message |-> message]

Ended(entry, tool, args, ran, fetch, outcome) ==
    [entry |-> entry, tool |-> tool, args |-> args, ran |-> ran,
     fetch |-> fetch, outcome |-> outcome]

\* The handler of an invocation ends.  Every handler answers from inside its
\* try/catch; an error that left an async handler would be an unhandled
\* rejection, which ends the process.
End(entry, tool, args, ran, fetch, outcome) ==
    /\ last' = Ended(entry, tool, args, ran, fetch, outcome)
    /\ serving' = ("thrown" \notin DOMAIN outcome)

\* a counter that is kept up to the number observed
Counted(n, observed) == IF n < observed THEN n + 1 ELSE n

\* An extraction tool is called (by any of the three entry points): the core
\* function issues axios.get and the handler awaits it.
CallExtraction(observed, entry, tool, args) ==
    /\ serving
    /\ tool \in ExtractionTools
    /\ InFlight < MaxInFlight
    /\ pending' = [pending EXCEPT ![<<entry, tool, args.include_html>>] = @ + 1]
    /\ started' = Counted(started, observed)
    /\ fetches' = Counted(fetches, observed)
    /\ UNCHANGED <<last, serving>>

\* axios.get resolves: the core function extracts and the handler returns
FetchResolves(k, page) ==
    /\ serving
    /\ pending[k] > 0
    /\ End(k[1], Some(k[2]), ArgsOf(k), k[2],
           Fetched(page),
           succeeded(k[1],
                     extraction(k[2], includeHtmlOf(ArgsOf(k)),
                                PageOf(page))))
    /\ pending' = [pending EXCEPT ![k] = @ - 1]
    /\ UNCHANGED <<fetches, started>>

\* variant: a failed fetch is tried again
FetchRejects_retried(k, message) ==
    /\ serving
    /\ pending[k] > 0
    /\ fetches' = fetches + 1
    /\ UNCHANGED <<pending, last, started, serving>>

\* axios.get rejects (timeout, transport failure, status outside 2xx): the
\* core function throws and the catch of the handler answers
FetchRejects(k, message) ==
    /\ serving
    /\ pending[k] > 0
    /\ End(k[1], Some(k[2]), ArgsOf(k), k[2],
           FetchFailure(message),
           caught(k[1], message))
    /\ pending' = [pending EXCEPT ![k] = @ - 1]
    /\ UNCHANGED <<fetches, started>>

\* axios.get resolves with a body that is no string (axios parses a JSON
\* body): browsePage with includeHtml throws, in cheerio.load or at
\* response.data.substring, and the catch of the handler answers
FetchResolvesNoString(k, message) ==
    /\ serving
    /\ pending[k] > 0
    /\ k[2] = "browse_page"
    /\ includeHtmlOf(ArgsOf(k))
    /\ End(k[1], Some(k[2]), ArgsOf(k), k[2],
           Fetched("json"),
           caught(k[1], message))
    /\ pending' = [pending EXCEPT ![k] = @ - 1]
    /\ UNCHANGED <<fetches, started>>

\* case "get_policy_questionnaire" of any of the three entry points
CallQuestionnaire(entry) ==
    /\ serving
    /\ End(entry, Some("get_policy_questionnaire"), NoArgs,
           "get_policy_questionnaire", NoFetch,
           succeeded(entry, getPolicyQuestionnaire))
    /\ UNCHANGED <<pending, fetches, started>>

\* case "recommend_policy" of the CallTool handler
McpRecommend(toolInput) ==
    /\ serving
    /\ End("mcp", Some("recommend_policy"), toolInput,
           "recommend_policy", NoFetch,
           mcpResult(recommendPolicy(mcpProfile(toolInput))))
    /\ UNCHANGED <<pending, fetches, started>>

\* case "recommend_policy" of POST /api/call
ApiCallRecommend(args) ==
    /\ serving
    /\ End("api_call", Some("recommend_policy"), args,
           "recommend_policy", NoFetch,
           httpResult(recommendPolicy(apiCallProfile(args))))
    /\ UNCHANGED <<pending, fetches, started>>

\* POST /api/tools/recommend_policy
EndpointRecommend(body) ==
    /\ serving
    /\ End("endpoint", Some("recommend_policy"), body,
           "recommend_policy", NoFetch,
           httpResult(recommendPolicy(endpointProfile(body))))
    /\ UNCHANGED <<pending, fetches, started>>

\* default of the CallTool handler: McpError thrown, caught by the handler
McpUnknownTool(toolName) ==
    /\ serving
    /\ toolName \notin ToolNames
    /\ End("mcp", Some(toolName), NoArgs, "none", NoFetch,
           caught("mcp", mcpUnknownTool(toolName)))
    /\ UNCHANGED <<pending, fetches, started>>

\* POST /api/call without a tool, or with a falsy one: if (!tool)
ApiCallNoTool(tool) ==
    /\ serving
    /\ ~TruthyStr(tool)
    /\ End("api_call", tool, NoArgs, "none", NoFetch,
           httpError(400, <<Lit("Tool name is required")>>))
    /\ UNCHANGED <<pending, fetches, started>>

\* default of POST /api/call
ApiCallUnknownTool(tool) ==
    /\ serving
    /\ TruthyStr(tool)
    /\ tool[1] \notin ToolNames
    /\ End("api_call", tool, NoArgs, "none", NoFetch,
           httpError(400, <<Lit("Unknown tool: "), [val |-> tool[1]]>>))
    /\ UNCHANGED <<pending, fetches, started>>

\* The server as a whole; its counters are not observed.
Next ==
    \/ \E entry \in Entries, tool \in ExtractionTools :
          \E args \in ArgsFor(tool) : CallExtraction(0, entry, tool, args)
    \/ \E k \in Kinds, page \in Pages : FetchResolves(k, page)
    \/ \E k \in Kinds, message \in FetchErrors : FetchRejects(k, message)
    \/ \E k \in Kinds, message \in CoreErrors : FetchResolvesNoString(k, message)
    \/ \E entry \in Entries : CallQuestionnaire(entry)
    \/ \E toolInput \in RecommendArgs : McpRecommend(toolInput)
    \/ \E args \in RecommendArgs : ApiCallRecommend(args)
    \/ \E body \in RecommendArgs : EndpointRecommend(body)
    \/ \E toolName \in UnknownNames : McpUnknownTool(toolName)
    \/ \E tool \in Opt(UnknownNames) : ApiCallNoTool(tool)
    \/ \E tool \in Opt(UnknownNames) : ApiCallUnknownTool(tool)

Spec == Init /\ [][Next]_vars

\* ------------------------------------------------------------------------
\* Specification of the two dispatchers with the fetches counted
\* ------------------------------------------------------------------------
MaxCounted == 3

Dispatchers == {"mcp", "api_call"}

DispatcherKinds == {k \in Kinds : k[1] \in Dispatchers}

NextCounted ==
    \/ \E entry \in Dispatchers, tool \in ExtractionTools :
          \E args \in ArgsFor(tool) :
              CallExtraction(MaxCounted, entry, tool, args)
    \/ \E k \in DispatcherKinds, page \in Pages : FetchResolves(k, page)
    \/ \E k \in DispatcherKinds, message \in FetchErrors :
          FetchRejects(k, message)
    \/ \E k \in DispatcherKinds, message \in CoreErrors :
          FetchResolvesNoString(k, message)
    \/ \E entry \in Dispatchers : CallQuestionnaire(entry)
    \/ McpRecommend(NoArgs)
    \/ ApiCallRecommend(NoArgs)
    \/ \E toolName \in UnknownNames : McpUnknownTool(toolName)
    \/ \E tool \in Opt(UnknownNames) : ApiCallNoTool(tool)
    \/ \E tool \in Opt(UnknownNames) : ApiCallUnknownTool(tool)

SpecCounted == Init /\ [][NextCounted]_vars

\* ------------------------------------------------------------------------
\* Specification of the engine alone
\* ------------------------------------------------------------------------
\* the engine alone: a profile is given, recommendPolicy is applied to it
InitRecommend ==
    /\ pending = [k \in Kinds |-> 0]
    /\ \E profile \in UserProfiles :
           last = [entry |-> "profile", profile |-> profile]
    /\ fetches = 0
    /\ started = 0
    /\ serving = TRUE

RecommendPolicyCall ==
    /\ last.entry = "profile"
    /\ last' = [entry |-> "direct",
                profile |-> last.profile,
                result |-> recommendPolicy(last.profile)]
    /\ UNCHANGED <<pending, fetches, started, serving>>

NextRecommend == RecommendPolicyCall

SpecRecommend == InitRecommend /\ [][NextRecommend]_vars

Direct == last.entry = "direct"

\* ------------------------------------------------------------------------
\* Specification of the extraction alone
\* ------------------------------------------------------------------------
\* Pieces of markup a page body is made of; the parent of a node is counted
\* inside the piece, 0 is the body.
Block(id) ==
    CASE id = "a" ->
            <<Node("a", 0), TextNode(1, Run("n", 4))>>
      [] id = "a_empty" ->
            <<[Node("a", 0) EXCEPT !.href = Some(<< >>)],
              TextNode(1, Run("e", 4))>>
      [] id = "a_contact" ->
            <<[Node("a", 0) EXCEPT !.href = Some(Run("/contact", 8))],
              TextNode(1, Run("c", 7))>>
      [] id = "nested" ->
            <<Node("div", 0), Node("p", 1),
              TextNode(2, Run(" ", 1) \o Run("X", 5) \o Run("\n", 1))>>
      [] id = "section" ->
            <<Node("section", 0),
              Node("h2", 1), TextNode(2, Run("h", 21)),
              Node("li", 1), TextNode(4, Run("f", 20)),
              Node("p", 1), TextNode(6, Run("p", 30))>>
      [] id = "article" ->
            <<Node("article", 0),
              Node("h3", 1), TextNode(2, Run("g", 20)),
              Node("li", 1),
              TextNode(4, Run(" ", 2) \o Run("i", 21) \o Run(" ", 2))>>
      [] id = "outside" ->
            <<Node("h2", 0), TextNode(1, Run("o", 25))>>
      [] id = "content" ->
            <<[Node("div", 0) EXCEPT !.class = {"content"}],
              Node("article", 1), Node("li", 2), TextNode(3, Run("k", 22))>>
      [] id = "long" ->
            <<Node("div", 0), Node("h1", 1), TextNode(2, Run("x", 12000))>>
      [] id = "blank" ->
            <<Node("span", 0), TextNode(1, Run(" ", 2))>>

BlockIds ==
    {"a", "a_empty", "a_contact", "nested", "section", "article", "outside",
     "content", "long", "blank"}

\* the head of a page: empty, or with a title and meta elements
HeadOf(id) ==
    IF id = "bare" THEN <<Node("head", 0)>>
    ELSE <<Node("head", 0),
           Node("title", 1), TextNode(2, Run("t", 12)),
           [Node("meta", 1) EXCEPT !.name = Some(Run("description", 11)),
                                   !.content = Some(Run("d", 30))],
           [Node("meta", 1) EXCEPT !.property = Some(Run("og:title", 8)),
                                   !.content = Some(Run("T", 9))]>>

HeadIds == {"bare", "full"}

MaxBlocks == 2

BlockSeqs == UNION {[1..n -> BlockIds] : n \in 0..MaxBlocks}

RECURSIVE Place(_, _, _)
Place(nodes, body, blocks) ==
    IF blocks = << >> THEN nodes
    ELSE LET block == Block(blocks[1])
             placed == [i \in 1..Len(block) |->
                           [block[i] EXCEPT !.parent =
                               IF @ = 0 THEN body ELSE @ + Len(nodes)]]
         IN  Place(nodes \o placed, body, Tail(blocks))

RECURSIVE TextLen(_)
TextLen(nodes) ==
    IF nodes = << >> THEN 0
    ELSE StrLen(nodes[1].text) + TextLen(Tail(nodes))

\* response.data and its parse: the markup holds the text of the page and
\* the tags around it
Document(head, blocks) ==
    LET top == HeadOf(head) \o <<Node("body", 0)>>
        nodes == Place(top, Len(top), blocks)
    IN  [raw |-> Run("<", 20 * Len(nodes) + TextLen(nodes)),
         nodes |-> nodes]

\* a page has been fetched
InitExtract ==
    /\ pending = [k \in Kinds |-> 0]
    /\ \E head \in HeadIds, blocks \in BlockSeqs :
           last = [entry |-> "fetched", head |-> head, blocks |-> blocks]
    /\ fetches = 0
    /\ started = 0
    /\ serving = TRUE

\* the rest of a core function: cheerio.load(response.data) and what follows
ExtractCall(tool, includeHtml) ==
    /\ last.entry = "fetched"
    /\ includeHtml => tool = "browse_page"
    /\ last' = [entry |-> "extracted",
                head |-> last.head,
                blocks |-> last.blocks,
                tool |-> tool,
                includeHtml |-> includeHtml,
                result |-> extraction(tool, includeHtml,
                                      Document(last.head, last.blocks))]
    /\ UNCHANGED <<pending, fetches, started, serving>>

NextExtract ==
    \E tool \in ExtractionTools, includeHtml \in BOOLEAN :
        ExtractCall(tool, includeHtml)

SpecExtract == InitExtract /\ [][NextExtract]_vars

\* ------------------------------------------------------------------------
\* Claims about the recommendation engine (checked under SpecRecommend)
\* ------------------------------------------------------------------------
Profile == last.profile

Summary == last.result.profileSummary

Coverages == last.result.recommendation.recommendedCoverages

Premium == last.result.recommendation.estimatedPremium

Has(seq, x) == \E i \in 1..Len(seq) : seq[i] = x

NoDuplicates(seq) ==
    \A i, j \in 1..Len(seq) : seq[i] = seq[j] => i = j

\* the age term as the claim states it, for a supplied age
ClaimAgeTerm(age) ==
    IF age < 25 THEN 3
    ELSE IF age < 35 THEN 1
    ELSE IF age > 70 THEN 2
    ELSE 0

\* C1: whenever age is supplied (any integer, 0 and negatives included) the
\* age term of the reported riskScore is 3 if age < 25, else 1 if age < 35,
\* else 2 if age > 70, else 0.
C1_AgeTermForEverySuppliedAge ==
    (Direct /\ Profile.age # undefined) =>
        Summary.riskScore =
            ClaimAgeTerm(Profile.age[1]) + experienceScore(Profile)
                + accidentScore(Profile) + mileageScore(Profile)

\* the experience term as the claim states it, for a supplied experience
ClaimExperienceTerm(years) ==
    IF years < 2 THEN 2
    ELSE IF years < 5 THEN 1
    ELSE 0

\* C2: whenever drivingExperience is supplied (any integer, 0 included) the
\* experience term of the reported riskScore is 2 if it is < 2, else 1 if it
\* is < 5, else 0.
C2_ExperienceTermForEverySuppliedValue ==
    (Direct /\ Profile.drivingExperience # undefined) =>
        Summary.riskScore =
            ageScore(Profile) + ClaimExperienceTerm(Profile.drivingExperience[1])
                + accidentScore(Profile) + mileageScore(Profile)

\* the accident term as the claim states it
ClaimAccidentTerm(profile) ==
    IF profile.hasAccidents = Some(TRUE)
    THEN IF profile.accidentCount # undefined /\ profile.accidentCount[1] # 0
         THEN 2 * profile.accidentCount[1]
         ELSE 2 * 1
    ELSE 0

\* C3: with hasAccidents true the accident term of the reported riskScore is
\* 2 * accidentCount when accidentCount is truthy and 2 otherwise (so a count
\* of 0 or an absent count adds 2); with hasAccidents false or absent it is 0.
C3_AccidentTerm ==
    Direct =>
        Summary.riskScore =
            ageScore(Profile) + experienceScore(Profile)
                + ClaimAccidentTerm(Profile) + mileageScore(Profile)

\* a profile with only hasAccidents true and accidentCount 0 scored 2
C3_Witness ==
    /\ Direct
    /\ Profile.hasAccidents = Some(TRUE)
    /\ Profile.accidentCount = Some(0)
    /\ Profile.age = undefined
    /\ Profile.drivingExperience = undefined
    /\ Profile.annualMileage = undefined
    /\ Summary.riskScore = 2

\* C4: for every profile, negative field values included, the reported
\* riskScore is a non-negative integer.
C4_RiskScoreNonNegative ==
    Direct => Summary.riskScore \in Nat

\* the risk level as the claim states it
ClaimRiskLevel(score) ==
    IF score <= 2 THEN "Low"
    ELSE IF score \in {3, 4} THEN "Medium"
    ELSE IF score >= 5 THEN "High"
    ELSE "none"

\* C5: the reported riskLevel is Low if the reported riskScore is <= 2,
\* Medium if it is 3 or 4, High if it is >= 5, and always one of the three.
C5_RiskLevelFromScore ==
    Direct =>
        /\ Summary.riskLevel = ClaimRiskLevel(Summary.riskScore)
        /\ Summary.riskLevel \in {"Low", "Medium", "High"}

\* a score of exactly 4 reported as Medium
C5_Witness ==
    Direct /\ Summary.riskScore = 4 /\ Summary.riskLevel = "Medium"

\* the coverage list as the claim states it
ClaimCoverages(profile, score) ==
    <<"Third-Party Liability (Mandatory)">>
        \o (IF score >= 4
            THEN <<"Comprehensive Coverage", "Collision Protection">>
            ELSE << >>)
        \o (IF profile.vehicleValue # undefined
               /\ profile.vehicleValue[1] > 20000
            THEN <<"Full Coverage Package", "Roadside Assistance">>
            ELSE << >>)
        \o (IF profile.annualMileage # undefined
               /\ profile.annualMileage[1] > 20000
            THEN <<"Breakdown Assistance">>
            ELSE << >>)
        \o (IF profile.drivingHabits # undefined
               /\ profile.drivingHabits[1] = "highway"
            THEN <<"Extended Coverage", "Legal Assistance">>
            ELSE << >>)

\* C6: recommendedCoverages is the in-order concatenation of the mandatory
\* entry, the two risk entries iff riskScore >= 4, the two value entries iff
\* vehicleValue > 20000, Breakdown Assistance iff annualMileage > 20000 and
\* the two highway entries iff drivingHabits is "highway"; it has 1 to 8
\* entries and no duplicate.
C6_CoveragesInOrder ==
    Direct =>
        /\ Coverages = ClaimCoverages(Profile, Summary.riskScore)
        /\ Coverages[1] = "Third-Party Liability (Mandatory)"
        /\ Len(Coverages) \in 1..8
        /\ NoDuplicates(Coverages)

\* a mileage between the two thresholds: Breakdown Assistance recommended
\* although the mileage adds nothing to the (low) risk score
C6_Witness ==
    /\ Direct
    /\ Profile.annualMileage = Some(30000)
    /\ Summary.riskScore = 0
    /\ Coverages =
          <<"Third-Party Liability (Mandatory)", "Full Coverage Package",
            "Roadside Assistance", "Breakdown Assistance",
            "Extended Coverage", "Legal Assistance">>

\* C7: recommendedCoverages contains Extended Coverage and Legal Assistance
\* iff drivingHabits is exactly "highway"; "Highway" and the questionnaire's
\* option labels for driving_habits never produce them.
C7_HighwayExactMatch ==
    Direct =>
        /\ (Has(Coverages, "Extended Coverage")
               /\ Has(Coverages, "Legal Assistance"))
           <=> (Profile.drivingHabits = Some("highway"))
        /\ Profile.drivingHabits
              \in {Some(h) : h \in DrivingHabitsOptions \cup {"Highway"}}
           => /\ ~Has(Coverages, "Extended Coverage")
              /\ ~Has(Coverages, "Legal Assistance")

\* the questionnaire's own highway label passed verbatim, no highway entry
C7_Witness ==
    /\ Direct
    /\ Profile.drivingHabits = Some("Highway (long distances)")
    /\ ~Has(Coverages, "Extended Coverage")
    /\ ~Has(Coverages, "Legal Assistance")

\* the capped base (in thousandths) as the claim states it
ClaimCappedBase(profile, score) ==
    LET base == 80000 + 15000 * score
                  + (IF profile.vehicleValue # undefined
                     THEN profile.vehicleValue[1] ELSE 0)
                  + (IF profile.annualMileage # undefined
                        /\ profile.annualMileage[1] > 30000
                     THEN 20000 ELSE 0)
    IN  IF profile.budgetRange = Some("€50-100") /\ base > 100000 THEN 100000
        ELSE IF profile.budgetRange = Some("€100-150") /\ base > 150000
             THEN 150000
        ELSE base

\* C8: the monthly figure is round(base) and the annual figure round(base*12)
\* of the same base = 80 + 15*riskScore + vehicleValue/1000 + 20 if
\* annualMileage > 30000, capped at 100 for "€50-100", at 150 for "€100-150"
\* and uncapped otherwise; so with "€50-100" the monthly figure never exceeds
\* 100 and the annual one never exceeds 1200.
C8_PremiumCapped ==
    Direct =>
        LET base == ClaimCappedBase(Profile, Summary.riskScore)
        IN  /\ Premium[2] = (base + 500) \div 1000
            /\ Premium[4] = (12 * base + 500) \div 1000
            /\ Profile.budgetRange = Some("€50-100")
               => Premium[2] <= 100 /\ Premium[4] <= 1200

\* a base of 255.125 cut to 100 by the "€50-100" budget
C8_Witness ==
    /\ Direct
    /\ Profile.budgetRange = Some("€50-100")
    /\ basePriceMilli(Profile, Summary.riskScore) = 255125
    /\ Premium[2] = 100
    /\ Premium[4] = 1200

\* ------------------------------------------------------------------------
\* Claims about the dispatchers (checked under Spec)
\* ------------------------------------------------------------------------
Served == last.entry \in Entries

\* the text of the one content item the CallTool handler returns
McpText == last.outcome.content[1].text

\* the outcome is an error outcome carrying the message
IsErrorWith(message) ==
    IF last.entry = "mcp"
    THEN /\ Len(last.outcome.content) = 1
         /\ McpText = <<Lit("Error: ")>> \o message
         /\ McpText[1] = Lit("Error: ")
    ELSE /\ last.outcome.body.success = FALSE
         /\ last.outcome.body.error = message

FetchFailed == Served /\ last.fetch.issued /\ ~last.fetch.ok

\* C9: when the fetch of an extraction tool times out or fails, the
\* invocation ends with an error outcome that carries the failure message
\* (HTTP: success false and the error; MCP: a text beginning "Error: "),
\* never with a success outcome.
C9_FetchFailureIsAnError ==
    FetchFailed =>
        /\ last.tool[1] \in ExtractionTools
        /\ IsErrorWith(last.fetch.message)
        /\ last.outcome \notin
              {succeeded(last.entry, data) :
                  data \in {<< >>} \cup
                      {extraction(last.tool[1], includeHtmlOf(last.args),
                                  PageOf(page)) : page \in Pages}}

\* browse_page through the CallTool handler, the fetch timed out
C9_Witness ==
    /\ FetchFailed
    /\ last.entry = "mcp"
    /\ last.tool = Some("browse_page")
    /\ last.fetch.message = <<Lit("timeout of 10000ms exceeded")>>
    /\ McpText = <<Lit("Error: "), Lit("timeout of 10000ms exceeded")>>

\* the message of the outcome, after "Error: " for the CallTool handler
ErrorMessage ==
    IF last.entry = "mcp" THEN Tail(McpText) ELSE last.outcome.body.error

NamesUnknownTool(message, name) ==
    \E i \in 1..(Len(message) - 1) :
        message[i] = Lit("Unknown tool: ") /\ message[i + 1] = [val |-> name]

\* an invocation through a dispatcher with a name that is none of the tools
UnknownAsked ==
    /\ Served
    /\ last.entry \in {"mcp", "api_call"}
    /\ last.tool # undefined
    /\ last.tool[1] \notin ToolNames

\* what every such invocation ends with: an error outcome that no failed
\* fetch gives, no core function run, no fetch issued
RejectedUnrun ==
    /\ IsErrorWith(ErrorMessage)
    /\ last.entry = "mcp" => last.outcome.content[1].isError = Some(TRUE)
    /\ last.entry = "api_call" => last.outcome.status = 400
    /\ last.outcome \notin {caught(last.entry, m) : m \in FetchErrors}
    /\ last.ran = "none"
    /\ last.fetch = NoFetch

\* C10 as stated: for every name that is none of the six tools, both
\* dispatchers return an error outcome that names the tool as unknown and
\* differs from the outcome of a failed fetch; no core function runs and no
\* fetch is issued.
C10_EveryUnknownNameReported ==
    UnknownAsked =>
        /\ RejectedUnrun
        /\ NamesUnknownTool(ErrorMessage, last.tool[1])

\* C10 as amended: the same for every non-empty name, and for the empty name
\* through the CallTool handler; POST /api/call answers the empty name, like
\* a missing one, with status 400 "Tool name is required", which is still an
\* error outcome unlike that of a failed fetch, with nothing run or fetched.
C10_UnknownToolReported ==
    UnknownAsked =>
        /\ RejectedUnrun
        /\ (last.entry = "mcp" \/ last.tool[1] # "")
              => NamesUnknownTool(ErrorMessage, last.tool[1])
        /\ (last.entry = "api_call" /\ last.tool[1] = "")
              => ErrorMessage = <<Lit("Tool name is required")>>

\* an unknown name through the CallTool handler, reported by name
C10_Witness ==
    /\ UnknownAsked
    /\ last.entry = "mcp"
    /\ last.tool = Some("delete_policy")
    /\ McpText = <<Lit("Error: "), Lit("MCP error "), Lit("-32601"), Lit(": "),
                   Lit("Unknown tool: "), [val |-> "delete_policy"]>>

\* ------------------------------------------------------------------------
\* Claims about the fetches (checked under SpecCounted)
\* ------------------------------------------------------------------------
\* the invocation that ended last asked for an extraction tool
ExtractionAsked ==
    Served /\ last.tool # undefined /\ last.tool[1] \in ExtractionTools

\* C11: every invocation of an extraction tool issues exactly one fetch (one
\* attempt, never tried again, never answered from an earlier invocation's
\* page) and the questionnaire and the recommendation issue none: at every
\* moment the fetches issued are as many as the extraction invocations
\* started, every invocation that awaits has issued its own, an invocation
\* has fetched iff it asked for an extraction tool, and what it answers is
\* extracted from the page its own fetch brought.
C11_OneFetchPerExtraction ==
    /\ fetches = started
    /\ InFlight <= fetches
    /\ Served => (last.fetch.issued <=> ExtractionAsked)
    /\ (ExtractionAsked /\ last.fetch.ok /\ last.fetch.page \in Pages)
          => last.outcome =
                succeeded(last.entry,
                          extraction(last.tool[1], includeHtmlOf(last.args),
                                     PageOf(last.fetch.page)))

\* two extraction invocations started and two fetches issued, one of them
\* ended with a failure and not tried again, the other still awaited
C11_Witness ==
    /\ fetches = 2
    /\ started = 2
    /\ InFlight = 1
    /\ ExtractionAsked
    /\ ~last.fetch.ok

\* ------------------------------------------------------------------------
\* Claims about the extraction (checked under SpecExtract)
\* ------------------------------------------------------------------------
Extracted(tool) == last.entry = "extracted" /\ last.tool = tool

\* the page the extraction was applied to
FetchedPage == Document(last.head, last.blocks)

FetchedNodes == FetchedPage.nodes

\* the trimmed text of the whole body
BodyText ==
    LET body == CHOOSE k \in 1..Len(FetchedNodes) : FetchedNodes[k].tag = "body"
    IN  Trim(ElementText(FetchedNodes, body))

\* a is the beginning of b
IsPrefix(a, b) ==
    \/ a = << >>
    \/ /\ Len(a) <= Len(b)
       /\ \A i \in 1..(Len(a) - 1) : a[i] = b[i]
       /\ a[Len(a)].c = b[Len(a)].c
       /\ a[Len(a)].n <= b[Len(a)].n

\* cut is the first cap characters of full, all of it when it has no more
CutAt(cut, full, cap) ==
    /\ IsPrefix(cut, full)
    /\ StrLen(cut) = (IF StrLen(full) < cap THEN StrLen(full) ELSE cap)

\* the trimmed, non-empty texts of the elements with one of the tags, in
\* document order, one for every such element
RECURSIVE TextsOf(_, _, _)
TextsOf(nodes, tags, k) ==
    IF k > Len(nodes) THEN << >>
    ELSE (IF nodes[k].tag \in tags /\ Trim(ElementText(nodes, k)) # << >>
          THEN <<Trim(ElementText(nodes, k))>>
          ELSE << >>)
            \o TextsOf(nodes, tags, k + 1)

RECURSIVE SumLen(_)
SumLen(strs) ==
    IF strs = << >> THEN 0 ELSE StrLen(strs[1]) + SumLen(Tail(strs))

HeadingTags == {"h1", "h2", "h3", "h4", "h5", "h6"}

TextTags == HeadingTags \cup {"p", "li", "span", "div"}

\* the caps of browse_page and of fullDetails
CutFields ==
    /\ (Extracted("browse_page") /\ ~last.includeHtml)
          => CutAt(last.result, BodyText, 10000)
    /\ (Extracted("browse_page") /\ last.includeHtml)
          => /\ CutAt(last.result.text_content, BodyText, 5000)
             /\ CutAt(last.result.html_preview, FetchedPage.raw, 3000)
    /\ Extracted("get_rgf_policy_info")
          => CutAt(last.result.fullDetails, BodyText, 8000)

RECURSIVE HrefsOf(_, _)
HrefsOf(nodes, k) ==
    IF k > Len(nodes) THEN << >>
    ELSE (IF nodes[k].tag = "a" /\ nodes[k].href # undefined
          THEN <<nodes[k].href[1]>>
          ELSE << >>)
            \o HrefsOf(nodes, k + 1)

\* C13: the links of get_page_metadata hold one entry for every anchor that
\* has an href attribute, whatever the value of the attribute (an empty one
\* included), in document order and with duplicates kept.
C13_OneLinkPerAnchorWithHref ==
    Extracted("get_page_metadata")
        => last.result.links = HrefsOf(FetchedNodes, 1)

\* the node is section, article, .content or .policy-details
IsContainer(node) ==
    \/ node.tag = "section"
    \/ node.tag = "article"
    \/ "content" \in node.class
    \/ "policy-details" \in node.class

\* some element above node k is a container
RECURSIVE BelowContainer(_, _)
BelowContainer(nodes, k) ==
    LET above == nodes[k].parent
    IN  /\ above # 0
        /\ (IsContainer(nodes[above]) \/ BelowContainer(nodes, above))

\* the trimmed texts of more than 20 characters of the elements with one of
\* the tags below a container, in document order
RECURSIVE PolicyTexts(_, _, _)
PolicyTexts(nodes, tags, k) ==
    IF k > Len(nodes) THEN << >>
    ELSE (IF /\ nodes[k].tag \in tags
             /\ BelowContainer(nodes, k)
             /\ StrLen(Trim(ElementText(nodes, k))) >= 21
          THEN <<Trim(ElementText(nodes, k))>>
          ELSE << >>)
            \o PolicyTexts(nodes, tags, k + 1)

RECURSIVE Runs(_, _)
Runs(str, c) ==
    IF str = << >> THEN 0
    ELSE (IF str[1].c = c THEN 1 ELSE 0) + Runs(Tail(str), c)

RECURSIVE Count(_, _)
Count(seq, x) ==
    IF seq = << >> THEN 0
    ELSE (IF seq[1] = x THEN 1 ELSE 0) + Count(Tail(seq), x)

\* C15: extract_text returns, joined by a blank line and in document order,
\* the trimmed text of every p, h1-h6, li, span and div element whose trimmed
\* text is not empty, one for every element and nothing taken out as a
\* duplicate: <div><p>X</p></div> gives X twice.
C15_EveryElementContributes ==
    Extracted("extract_text") =>
        /\ last.result = Join(TextsOf(FetchedNodes, TextTags, 1))
        /\ Runs(last.result, "X") = 2 * Count(last.blocks, "nested")
        /\ last.blocks = <<"nested">>
              => last.result = Run("X", 5) \o Run("\n", 2) \o Run("X", 5)

\* <div><p> XXXXX </p></div> alone in the body: XXXXX, a blank line, XXXXX
C15_Witness ==
    /\ Extracted("extract_text")
    /\ last.blocks = <<"nested">>
    /\ last.result = Run("X", 5) \o Run("\n", 2) \o Run("X", 5)

\* ------------------------------------------------------------------------
\* Claims about failures (checked under SpecCounted)
\* ------------------------------------------------------------------------
\* the invocation that ended last failed: its fetch failed, its core function
\* threw, its tool is unknown or its tool name is missing
Failed ==
    /\ Served
    /\ \/ last.fetch.issued /\ ~last.fetch.ok
       \/ last.fetch.issued /\ last.fetch.ok /\ last.fetch.page \notin Pages
       \/ last.ran = "none"

\* a success that carries a result
SuccessOutcome(entry, outcome) ==
    IF entry = "mcp"
    THEN /\ DOMAIN outcome = {"content"}
         /\ Len(outcome.content) = 1
         /\ outcome.content[1].isError = undefined
         /\ Len(outcome.content[1].text) = 1
         /\ DOMAIN outcome.content[1].text[1] = {"val"}
    ELSE /\ DOMAIN outcome = {"status", "body"}
         /\ outcome.status = 200
         /\ DOMAIN outcome.body = {"success", "data"}
         /\ outcome.body.success = TRUE

\* an error that carries a message
ErrorOutcome(entry, outcome) ==
    IF entry = "mcp"
    THEN /\ DOMAIN outcome = {"content"}
         /\ Len(outcome.content) = 1
         /\ outcome.content[1].isError = Some(TRUE)
         /\ Len(outcome.content[1].text) >= 2
         /\ outcome.content[1].text[1] = Lit("Error: ")
    ELSE /\ DOMAIN outcome = {"status", "body"}
         /\ outcome.status \in {400, 500}
         /\ DOMAIN outcome.body = {"success", "error"}
         /\ outcome.body.success = FALSE
         /\ outcome.body.error # << >>

\* the invocation that ended last has one outcome, an error iff it failed
OneOutcome ==
    /\ SuccessOutcome(last.entry, last.outcome) <=> ~Failed
    /\ ErrorOutcome(last.entry, last.outcome) <=> Failed

\* A step starts one invocation that awaits its fetch, or ends one of those
\* that await, or is one invocation that needs no fetch from start to end.
OneInvocationAStep ==
    \/ /\ last' = last
       /\ \E k \in Kinds : pending' = [pending EXCEPT ![k] = @ + 1]
    \/ /\ last'.fetch.issued
       /\ \E k \in Kinds :
             /\ pending[k] > 0
             /\ pending' = [pending EXCEPT ![k] = @ - 1]
             /\ last'.entry = k[1]
             /\ last'.tool = Some(k[2])
    \/ /\ pending' = pending
       /\ ~last'.fetch.issued

\* after a failed invocation the questionnaire is answered as ever
NextHandledNormally ==
    (Failed /\ last'.tool = Some("get_policy_questionnaire"))
        => last'.outcome = succeeded(last'.entry, getPolicyQuestionnaire)

\* C16: whatever invocations failed before (fetch failure, unknown tool,
\* missing tool name, exception inside a core function), the server keeps
\* serving and takes the next invocation, which it handles as ever; every
\* invocation ends with exactly one outcome, a success that carries the
\* result or an error that carries a message; no failure leaves the handler
\* and ends the process.
C16_FailuresStayInsideTheRequest ==
    /\ [](/\ serving
          /\ Served => OneOutcome
          /\ ENABLED CallQuestionnaire("mcp"))
    /\ [][/\ OneInvocationAStep
          /\ serving'
          /\ NextHandledNormally]_vars

\* browse_page with include_html threw on a body that is no string, after
\* another extraction invocation had been started; the server serves on and
\* one invocation still awaits its fetch
C16_Witness ==
    /\ Failed
    /\ last.fetch.issued
    /\ last.fetch.ok
    /\ last.outcome = caught(last.entry,
                             <<Lit("response.data.substring is not a function")>>)
    /\ started = 2
    /\ InFlight = 1
    /\ serving

\* ------------------------------------------------------------------------
\* Claims about the entry points of recommend_policy (checked under Spec)
\* ------------------------------------------------------------------------
\* the nine snake_case keys and the profile field each one gives
KeyOfField ==
    [age |-> "age",
     drivingExperience |-> "driving_experience",
     vehicleType |-> "vehicle_type",
     annualMileage |-> "annual_mileage",
     drivingHabits |-> "driving_habits",
     hasAccidents |-> "has_accidents",
     accidentCount |-> "accident_count",
     vehicleValue |-> "vehicle_value",
     budgetRange |-> "budget_range"]

ProfileOfArguments(args) ==
    [field \in DOMAIN KeyOfField |-> args[KeyOfField[field]]]

RecommendAsked == Served /\ last.tool = Some("recommend_policy")

\* the result a success outcome carries
ResultCarried ==
    IF last.entry = "mcp"
    THEN last.outcome.content[1].text[1].val
    ELSE last.outcome.body.data

====
